---- MODULE Spec2Model ----
(***************************************************************************)
(* Model of misc/abstract_search.py: the curses search loop (main), the    *)
(* modal popup (show_popup) and the file-backed abstract cache             *)
(* (lookup_abstract).                                                      *)
(*                                                                         *)
(* Python strings are sequences of one-character strings, so that          *)
(* str.lower(), the `in` substring test, slicing and the text-mode file    *)
(* round trip are computed and not assumed.  Key codes are the integers    *)
(* curses returns.                                                         *)
(***************************************************************************)
EXTENDS Integers, Sequences, FiniteSets, TLC

VARIABLES
    pc,              \* control point of the process
    object,          \* main: the parsed agenda (json.load), a sequence of records
    jmm_kv,          \* main: title -> record
    items,           \* main: list(jmm_kv.keys())
    search_text,     \* main
    selected_index,  \* main
    max_y, max_x,    \* main: terminal size as last read by getmaxyx
    filtered_items,  \* main: as computed by the last pass through lines 122-128
    key,             \* main: the last value returned by stdscr.getch()
    selected_item,   \* main: title chosen by the last Enter
    id,              \* lookup_abstract: its argument
    abstract,        \* main: value returned by lookup_abstract
    popup,           \* show_popup: title and message of the popup on screen
    cache,           \* files of CACHE_DIR: id -> file content
    inbuf,           \* bytes of the terminal input stream not yet read
    eof,             \* the input stream is at end of input
    term,            \* the real terminal size <<lines, columns>>
    fetches,         \* urlopen calls made by the current lookup_abstract call
    response,        \* what the last of them produced, "none" before it
    uncaught,        \* the function whose exception ended the process, or ""
    fetched,         \* history: id -> text of the fetch that created its cache file
    notfound,        \* history: ids a lookup answered with NotFound
    saved            \* history: <<search_text, selected_index>> at the last Enter

vars == <<pc, object, jmm_kv, items, search_text, selected_index, max_y, max_x,
          filtered_items, key, selected_item, id, abstract, popup, cache,
          inbuf, eof, term, fetches, response, uncaught, fetched, notfound,
          saved>>

(***************************************************************************)
(* Bounds                                                                  *)
(***************************************************************************)
MaxQuery == 2        \* longest search_text the model lets the user type

(***************************************************************************)
(* Key codes (curses) and characters                                       *)
(***************************************************************************)
KEY_ESC == 27
KEY_DOWN == 258
KEY_UP == 259
KEY_BACKSPACE == 263
KEY_ENTER == 343
KEY_RESIZE == 410
ERR == -1
NoKey == 0           \* key before the getch of the current pass has returned

EnterKeys == {KEY_ENTER, 10, 13}
BackspaceKeys == {KEY_BACKSPACE, 127, 8}

\* chr(key) for the printable codes the model uses
chr(k) ==
    CASE k = 65 -> "A" [] k = 66 -> "B" [] k = 79 -> "O"
      [] k = 97 -> "a" [] k = 98 -> "b" [] k = 111 -> "o"

PrintableKeys == {65, 66, 79, 97, 98, 111}
TypedKeys == {65, 98, 111}

\* str.lower(), character by character
lower_char(c) ==
    CASE c = "A" -> "a" [] c = "B" -> "b" [] c = "O" -> "o" [] OTHER -> c

lower(s) == [i \in 1..Len(s) |-> lower_char(s[i])]

\* a as a prefix of b, where the program tests containment
str_startswith(a, b) ==
    Len(a) <= Len(b) /\ SubSeq(b, 1, Len(a)) = a

\* the Python expression  a in b  on strings
str_in(a, b) ==
    \E i \in 0..(Len(b) - Len(a)) : SubSeq(b, i + 1, i + Len(a)) = a

Min(a, b) == IF a < b THEN a ELSE b
Max(a, b) == IF a > b THEN a ELSE b


RECURSIVE Range(_)
Range(s) == IF s = <<>> THEN {} ELSE {Head(s)} \cup Range(Tail(s))

(***************************************************************************)
(* Inputs of the model: agenda files, terminal sizes, cache directories    *)
(* and remote responses.                                                   *)
(***************************************************************************)
LongTitle == [i \in 1..40 |-> IF i = 1 THEN "O" ELSE "a"]

Agendas ==
    { << [title |-> <<"a", "B", "o">>, presno |-> "1"],
         [title |-> <<"O", "b", "a">>],
         [title |-> <<"b", "o", "b">>, presno |-> "2"],
         [title |-> <<"A", "b", "A">>, presno |-> "1"] >>,
      << [title |-> <<"a", "B", "o">>, presno |-> "1"],
         [title |-> <<"B", "a", "b">>, presno |-> "1"],
         [title |-> <<"a", "B", "o">>, presno |-> "2"] >>,
      << [title |-> LongTitle, presno |-> "2"],
         [title |-> <<"o", "A", "b">>, presno |-> "1"] >>,
      << [title |-> <<"O", "b", "a">>] >> }

Ids == {"1", "2"}

\* <<lines, columns>> of the terminal
Sizes == { <<24, 80>>, <<9, 50>> }

PlainText == <<"a", "b", "c">>
CrText == <<"a", "\r", "\n", "b">>
RemoteTexts == {PlainText, CrText}

\* what urlopen + json.loads produce for one request
Responses ==
    { [kind |-> "error"],        \* urlopen, decode or json.loads raises
      [kind |-> "nofield"],      \* a document without "RawAbstract"
      [kind |-> "nonstring"] }   \* "RawAbstract" is present and is not a string
    \cup { [kind |-> "text", text |-> t] : t \in RemoteTexts }

NoFile == <<>>
InitialCaches == { NoFile, "1" :> PlainText }

NotFound ==
    << "A", "b", "s", "t", "r", "a", "c", "t", " ",
       "n", "o", "t", " ", "f", "o", "u", "n", "d", "." >>

(***************************************************************************)
(* main, lines 101-107: the catalog                                        *)
(***************************************************************************)
\* list(filter(lambda o: "presno" in o, object))
with_presno(obj) == SelectSeq(obj, LAMBDA o : "presno" \in DOMAIN o)

\* keys of dict(zip(titles, records)): each title once, at its first position
RECURSIVE dict_keys(_)
dict_keys(recs) ==
    IF recs = <<>> THEN <<>>
    ELSE LET front == dict_keys(SubSeq(recs, 1, Len(recs) - 1))
             t == recs[Len(recs)].title
         IN  IF t \in Range(front) THEN front ELSE Append(front, t)

\* a mapping in which the first record of a title stays
dict_zip_first(recs) ==
    [t \in {recs[i].title : i \in 1..Len(recs)} |->
        LET first == CHOOSE i \in 1..Len(recs) :
                        /\ recs[i].title = t
                        /\ \A j \in 1..(i - 1) : recs[j].title # t
        IN  recs[first]]

\* dict(zip(titles, records)): a later record overwrites an earlier one
dict_zip(recs) ==
    [t \in {recs[i].title : i \in 1..Len(recs)} |->
        LET last == CHOOSE i \in 1..Len(recs) :
                        /\ recs[i].title = t
                        /\ \A j \in (i + 1)..Len(recs) : recs[j].title # t
        IN  recs[last]]

(***************************************************************************)
(* main, lines 121-135: filter and clamp                                   *)
(***************************************************************************)
filter_items(its, text) ==
    IF text # <<>>
    THEN SelectSeq(its, LAMBDA item : str_in(lower(text), lower(item)))
    ELSE its

clamp_index(filt, idx) ==
    IF filt # <<>> THEN Max(Min(idx, Len(filt) - 1), 0) ELSE 0

\* line 191 with the last index let through
move_down_past_end(filt, idx) ==
    IF filt # <<>> /\ idx < Len(filt) THEN idx + 1 ELSE idx

\* lines 191-192
move_down(filt, idx) ==
    IF filt # <<>> /\ idx < Len(filt) - 1 THEN idx + 1 ELSE idx

\* line 189 without the test of line 188
move_up_no_floor(idx) == idx - 1

\* lines 188-189
move_up(idx) == IF idx > 0 THEN idx - 1 ELSE idx

\* line 196 without the index
chosen_first(filt, idx) == filt[1]

\* line 196: filtered_items[selected_index]
chosen(filt, idx) == filt[idx + 1]

\* lines 151-152: filtered_items[:available_lines]
slice_to(s, n) ==
    IF n >= 0 THEN SubSeq(s, 1, Min(n, Len(s)))
    ELSE SubSeq(s, 1, Max(Len(s) + n, 0))

display_items == slice_to(filtered_items, max_y - 7)

(***************************************************************************)
(* lookup_abstract, lines 77-80 and 88-89: the cache file as text          *)
(***************************************************************************)
\* f.read() of a file opened with open(path, 'r'): universal newlines
RECURSIVE read_text(_)
read_text(s) ==
    IF s = <<>> THEN <<>>
    ELSE IF s[1] = "\r"
         THEN IF Len(s) >= 2 /\ s[2] = "\n"
              THEN <<"\n">> \o read_text(SubSeq(s, 3, Len(s)))
              ELSE <<"\n">> \o read_text(Tail(s))
         ELSE <<s[1]>> \o read_text(Tail(s))

\* f.write(text) to a file opened with open(path, 'w') (os.linesep is "\n")
write_text(t) == t

cache_file_exists(i) == i \in DOMAIN cache

(***************************************************************************)
(* show_popup, lines 22-70: does the drawing succeed                       *)
(***************************************************************************)
\* f"Abstract for: \"{selected_item}\""
popup_title_len(item) == 15 + Len(item) + 1

\* longest line of textwrap.wrap(f"Abstract:\n{abstract}", width): the texts
\* of the model have no blank at either end and fit in one line
message_width(text) == IF text = <<>> THEN 9 ELSE 10 + Len(text)

popup_width(item, text, mx) ==
    Min(Max(popup_title_len(item), message_width(text)) + 6, mx - 4)

\* addstr raises curses.error for a negative column (lines 50-51, 69-70)
popup_draws(item, text, mx) ==
    /\ (popup_width(item, text, mx) - popup_title_len(item)) \div 2 >= 0
    /\ (popup_width(item, text, mx) - 25) \div 2 >= 0


(***************************************************************************)
(* Initial state: the process has started, nothing is loaded               *)
(***************************************************************************)
Init ==
    /\ pc = "start"
    /\ object = <<>>
    /\ jmm_kv = <<>>
    /\ items = <<>>
    /\ search_text = <<>>
    /\ selected_index = 0
    /\ term \in Sizes
    /\ max_y = 0
    /\ max_x = 0
    /\ filtered_items = <<>>
    /\ key = NoKey
    /\ selected_item = <<>>
    /\ id = ""
    /\ abstract = <<>>
    /\ popup = <<>>
    /\ cache \in InitialCaches
    /\ inbuf = <<>>
    /\ eof = FALSE
    /\ fetches = 0
    /\ response = "none"
    /\ uncaught = ""
    /\ fetched = <<>>
    /\ notfound = {}
    /\ saved = <<>>

(***************************************************************************)
(* main, lines 99-116: load the agenda, initialise the state               *)
(***************************************************************************)
Load ==
    /\ pc = "start"
    /\ \E obj \in Agendas :
        /\ object' = obj
        /\ jmm_kv' = dict_zip(with_presno(obj))
        /\ items' = dict_keys(with_presno(obj))
    /\ search_text' = <<>>
    /\ selected_index' = 0
    /\ max_y' = term[1]
    /\ max_x' = term[2]
    /\ pc' = "top"
    /\ UNCHANGED <<filtered_items, key, selected_item, id, abstract, popup,
                   cache, inbuf, eof, term, uncaught, fetches, response,
                   fetched, notfound, saved>>

\* open() or json.load raises, and the loop is entered with no catalog
LoadFail_continues ==
    /\ pc = "start"
    /\ pc' = "top"
    /\ uncaught' = "main"
    /\ UNCHANGED <<object, jmm_kv, items, search_text, selected_index, max_y,
                   max_x, filtered_items, key, selected_item, id, abstract,
                   popup, cache, inbuf, eof, term, fetches, response, fetched,
                   notfound, saved>>

\* open() or json.load raises: the exception leaves main and the process
LoadFail ==
    /\ pc = "start"
    /\ pc' = "crashed"
    /\ uncaught' = "main"
    /\ UNCHANGED <<object, jmm_kv, items, search_text, selected_index, max_y,
                   max_x, filtered_items, key, selected_item, id, abstract,
                   popup, cache, inbuf, eof, term, fetches, response, fetched,
                   notfound, saved>>

(***************************************************************************)
(* main, lines 118-176: one pass from the loop head to getch               *)
(***************************************************************************)
Render ==
    /\ pc = "top"
    /\ filtered_items' = filter_items(items, search_text)
    /\ selected_index' = clamp_index(filtered_items', selected_index)
    /\ popup' = <<>>
    /\ key' = NoKey
    /\ pc' = "getch"
    /\ UNCHANGED <<object, jmm_kv, items, search_text, max_y, max_x,
                   selected_item, id, abstract, cache, inbuf, eof, term,
                   uncaught, fetches, response, fetched, notfound, saved>>

(***************************************************************************)
(* stdscr.getch(), line 180 (keypad mode is on for stdscr)                 *)
(***************************************************************************)
\* codes a key press produces on an xterm: Enter is 10, Backspace is 127, 260 is
\* KEY_LEFT, 233 is a byte of a character outside ASCII
UserKeys == {KEY_ESC, KEY_UP, KEY_DOWN, 127, 10, 260, 233} \cup TypedKeys

\* getch returns k: bytes left unread come first, then what the user does
read_key(k) ==
    /\ key' = k
    /\ \/ /\ inbuf # <<>>
          /\ k = Head(inbuf)
          /\ inbuf' = Tail(inbuf)
          /\ UNCHANGED <<eof, term>>
       \/ /\ inbuf = <<>>
          /\ ~eof
          /\ k \in UserKeys
          /\ UNCHANGED <<inbuf, eof, term>>
       \/ /\ inbuf = <<>>
          /\ ~eof
          /\ k = KEY_RESIZE
          /\ term' \in Sizes \ {term}
          /\ UNCHANGED <<inbuf, eof>>
       \/ /\ inbuf = <<>>
          /\ k = ERR
          /\ eof' = TRUE
          /\ UNCHANGED <<inbuf, term>>

\* saved is kept until the next input event of the user is read
Getch(k) ==
    /\ read_key(k)
    /\ saved' = IF inbuf # <<>> THEN saved ELSE <<>>


(***************************************************************************)
(* main, lines 179-211: the key handlers                                   *)
(***************************************************************************)
\* lines 181-182: KeyboardInterrupt raised inside getch
Interrupt ==
    /\ pc = "getch"
    /\ pc' = "done"
    /\ UNCHANGED <<object, jmm_kv, items, search_text, selected_index, max_y,
                   max_x, filtered_items, key, selected_item, id, abstract,
                   popup, cache, inbuf, eof, term, uncaught, fetches, response,
                   fetched, notfound, saved>>

\* lines 185-186 without the break
KeyEsc_no_break ==
    /\ pc = "getch"
    /\ Getch(KEY_ESC)
    /\ pc' = "top"
    /\ UNCHANGED <<object, jmm_kv, items, search_text, selected_index, max_y,
                   max_x, filtered_items, selected_item, id, abstract, popup,
                   cache, fetches, response, fetched, notfound, uncaught>>

\* lines 185-186
KeyEsc ==
    /\ pc = "getch"
    /\ Getch(KEY_ESC)
    /\ pc' = "done"
    /\ UNCHANGED <<object, jmm_kv, items, search_text, selected_index, max_y,
                   max_x, filtered_items, selected_item, id, abstract, popup,
                   cache, fetches, response, fetched, notfound, uncaught>>

\* lines 187-189
KeyUp ==
    /\ pc = "getch"
    /\ Getch(KEY_UP)
    /\ selected_index' = move_up(selected_index)
    /\ pc' = "top"
    /\ UNCHANGED <<object, jmm_kv, items, search_text, max_y, max_x,
                   filtered_items, selected_item, id, abstract, popup, cache,
                   fetches, response, fetched, notfound, uncaught>>

\* lines 190-192
KeyDown ==
    /\ pc = "getch"
    /\ Getch(KEY_DOWN)
    /\ selected_index' = move_down(filtered_items, selected_index)
    /\ pc' = "top"
    /\ UNCHANGED <<object, jmm_kv, items, search_text, max_y, max_x,
                   filtered_items, selected_item, id, abstract, popup, cache,
                   fetches, response, fetched, notfound, uncaught>>

\* lines 193-197: Enter; with a result selected, lookup_abstract is called
KeyEnter ==
    /\ pc = "getch"
    /\ \E k \in EnterKeys : read_key(k)
    /\ IF filtered_items # <<>>
       THEN /\ selected_item' = chosen(filtered_items, selected_index)
            /\ id' = jmm_kv[selected_item'].presno
            /\ fetches' = 0
            /\ response' = "none"
            /\ saved' = <<search_text, selected_index>>
            /\ pc' = "lookup"
       ELSE /\ pc' = "top"
            /\ saved' = <<>>
            /\ UNCHANGED <<selected_item, id, fetches, response, uncaught>>
    /\ UNCHANGED <<object, jmm_kv, items, search_text, selected_index, max_y,
                   max_x, filtered_items, abstract, popup, cache, fetched,
                   notfound, uncaught>>

\* lines 203-204, without the reset of line 205
KeyBackspace_keeps_index ==
    /\ pc = "getch"
    /\ \E k \in BackspaceKeys : Getch(k)
    /\ search_text' = SubSeq(search_text, 1, Len(search_text) - 1)
    /\ UNCHANGED selected_index
    /\ pc' = "top"
    /\ UNCHANGED <<object, jmm_kv, items, max_y, max_x, filtered_items,
                   selected_item, id, abstract, popup, cache, fetches,
                   response, fetched, notfound, uncaught>>

\* lines 203-205
KeyBackspace ==
    /\ pc = "getch"
    /\ \E k \in BackspaceKeys : Getch(k)
    /\ search_text' = SubSeq(search_text, 1, Len(search_text) - 1)
    /\ selected_index' = 0
    /\ pc' = "top"
    /\ UNCHANGED <<object, jmm_kv, items, max_y, max_x, filtered_items,
                   selected_item, id, abstract, popup, cache, fetches,
                   response, fetched, notfound, uncaught>>

\* lines 206-208, with the selection reset as for a changed query
KeyResize_resets ==
    /\ pc = "getch"
    /\ Getch(KEY_RESIZE)
    /\ max_y' = term'[1]
    /\ max_x' = term'[2]
    /\ selected_index' = 0
    /\ pc' = "top"
    /\ UNCHANGED <<object, jmm_kv, items, search_text,
                   filtered_items, selected_item, id, abstract, popup, cache,
                   fetches, response, fetched, notfound, uncaught>>

\* lines 206-208
KeyResize ==
    /\ pc = "getch"
    /\ Getch(KEY_RESIZE)
    /\ max_y' = term'[1]
    /\ max_x' = term'[2]
    /\ pc' = "top"
    /\ UNCHANGED <<object, jmm_kv, items, search_text, selected_index,
                   filtered_items, selected_item, id, abstract, popup, cache,
                   fetches, response, fetched, notfound, uncaught>>

\* lines 209-211
KeyPrintable ==
    /\ pc = "getch"
    /\ Len(search_text) < MaxQuery
    /\ \E k \in PrintableKeys :
        /\ Getch(k)
        /\ 32 <= k /\ k <= 126
        /\ search_text' = Append(search_text, chr(k))
    /\ selected_index' = 0
    /\ pc' = "top"
    /\ UNCHANGED <<object, jmm_kv, items, max_y, max_x, filtered_items,
                   selected_item, id, abstract, popup, cache, fetches,
                   response, fetched, notfound, uncaught>>

\* no branch of lines 185-211 matches (-1 at end of input, other keys)
KeyOther ==
    /\ pc = "getch"
    /\ \E k \in {ERR, 260, 233} : Getch(k)
    /\ pc' = "top"
    /\ UNCHANGED <<object, jmm_kv, items, search_text, selected_index, max_y,
                   max_x, filtered_items, selected_item, id, abstract, popup,
                   cache, fetches, response, fetched, notfound, uncaught>>


(***************************************************************************)
(* lookup_abstract, lines 75-97, called from line 197                      *)
(***************************************************************************)
\* an exception leaves lookup_abstract (line 97); main has no handler and
\* __main__ catches KeyboardInterrupt only: the process ends with a traceback
raise_from_lookup ==
    /\ pc' = "crashed"
    /\ uncaught' = "lookup_abstract"
    /\ UNCHANGED <<object, jmm_kv, items, search_text, selected_index, max_y,
                   max_x, filtered_items, key, selected_item, id, abstract,
                   popup, inbuf, eof, term, fetched, notfound, saved>>

return_from_lookup(text) ==
    /\ abstract' = text
    /\ pc' = "show_popup"
    /\ UNCHANGED <<object, jmm_kv, items, search_text, selected_index, max_y,
                   max_x, filtered_items, key, selected_item, id, popup, inbuf,
                   eof, term, uncaught, saved>>

\* lines 77-80: the cache file exists
LookupCached ==
    /\ pc = "lookup"
    /\ cache_file_exists(id)
    /\ return_from_lookup(read_text(cache[id]))
    /\ UNCHANGED <<cache, fetches, response, fetched, notfound>>

\* lines 83-91 without the test of line 78
LookupStore_unchecked ==
    /\ pc = "lookup"
    /\ \E r \in Responses :
        /\ r.kind = "text"
        /\ cache' = (id :> write_text(r.text)) @@ cache
        /\ fetched' = (id :> r.text) @@ fetched
        /\ return_from_lookup(r.text)
    /\ fetches' = fetches + 1
    /\ response' = "text"
    /\ UNCHANGED notfound

\* lines 83-91: the response has a text "RawAbstract", which is stored
LookupStore ==
    /\ pc = "lookup"
    /\ ~cache_file_exists(id)
    /\ \E r \in Responses :
        /\ r.kind = "text"
        /\ cache' = (id :> write_text(r.text)) @@ cache
        /\ fetched' = (id :> r.text) @@ fetched
        /\ return_from_lookup(r.text)
    /\ fetches' = fetches + 1
    /\ response' = "text"
    /\ UNCHANGED notfound

\* lines 88-89 raise (open fails, or the write fails part way): line 97
LookupStoreFail ==
    /\ pc = "lookup"
    /\ ~cache_file_exists(id)
    /\ \E r \in Responses :
        /\ r.kind = "text"
        /\ \/ cache' = cache
           \/ \E n \in 0..(Len(r.text) - 1) :
                cache' = (id :> SubSeq(write_text(r.text), 1, n)) @@ cache
    /\ fetches' = fetches + 1
    /\ response' = "text"
    /\ raise_from_lookup

\* line 88 creates the file, f.write of a non-string raises TypeError: line 97
LookupNonString ==
    /\ pc = "lookup"
    /\ ~cache_file_exists(id)
    /\ \E r \in Responses : r.kind = "nonstring"
    /\ cache' = (id :> <<>>) @@ cache
    /\ fetches' = fetches + 1
    /\ response' = "nonstring"
    /\ raise_from_lookup

\* lines 92-93, with the sentinel written to the cache file as well
LookupNotFound_cached ==
    /\ pc = "lookup"
    /\ ~cache_file_exists(id)
    /\ \E r \in Responses : r.kind = "nofield"
    /\ fetches' = fetches + 1
    /\ response' = "nofield"
    /\ notfound' = notfound \cup {id}
    /\ return_from_lookup(NotFound)
    /\ cache' = (id :> write_text(NotFound)) @@ cache
    /\ UNCHANGED fetched

\* lines 92-93: no "RawAbstract" in the response
LookupNotFound ==
    /\ pc = "lookup"
    /\ ~cache_file_exists(id)
    /\ \E r \in Responses : r.kind = "nofield"
    /\ fetches' = fetches + 1
    /\ response' = "nofield"
    /\ notfound' = notfound \cup {id}
    /\ return_from_lookup(NotFound)
    /\ UNCHANGED <<cache, fetched>>

\* lines 84-85 raise, after a second attempt
LookupError_retry ==
    /\ pc = "lookup"
    /\ ~cache_file_exists(id)
    /\ \E r \in Responses : r.kind = "error"
    /\ fetches' = fetches + 2
    /\ response' = "error"
    /\ raise_from_lookup
    /\ UNCHANGED cache

\* lines 84-85 raise (urlopen, decode, json.loads): lines 95-97
LookupError ==
    /\ pc = "lookup"
    /\ ~cache_file_exists(id)
    /\ \E r \in Responses : r.kind = "error"
    /\ fetches' = fetches + 1
    /\ response' = "error"
    /\ raise_from_lookup
    /\ UNCHANGED cache

(***************************************************************************)
(* show_popup, lines 17-73, called from lines 198-201                      *)
(***************************************************************************)
\* lines 22-72: the popup is drawn; addstr raises when it does not fit
ShowPopup ==
    /\ pc = "show_popup"
    /\ IF popup_draws(selected_item, abstract, term[2])
       THEN /\ popup' = [title |-> selected_item, message |-> abstract]
            /\ pc' = "popup"
            /\ UNCHANGED uncaught
       ELSE /\ pc' = "crashed"
            /\ uncaught' = "show_popup"
            /\ UNCHANGED popup
    /\ UNCHANGED <<object, jmm_kv, items, search_text, selected_index, max_y,
                   max_x, filtered_items, key, selected_item, id, abstract,
                   cache, inbuf, eof, term, fetches, response, fetched,
                   notfound, saved>>

\* show_popup returns to line 202; selected_item, abstract and the locals of
\* lookup_abstract are not read again and are dropped here
popup_returns ==
    /\ pc' = "top"
    /\ selected_item' = <<>>
    /\ abstract' = <<>>
    /\ id' = ""
    /\ fetches' = 0
    /\ response' = "none"
    /\ UNCHANGED <<object, jmm_kv, items, search_text, selected_index, max_y,
                   max_x, filtered_items, key, popup, cache, fetched, notfound,
                   saved, uncaught>>

\* line 73: popup_win.getch() returns a one-byte key, or -1 at end of input
PopupKey ==
    /\ pc = "popup"
    /\ \/ /\ ~eof
          /\ UNCHANGED eof
       \/ eof' = TRUE
    /\ popup_returns
    /\ UNCHANGED <<inbuf, term>>

\* line 73: popup_win has no keypad mode: of the bytes ESC O A (up) or ESC O B
\* (down) of an arrow key getch returns ESC and leaves the rest unread
PopupArrow ==
    /\ pc = "popup"
    /\ ~eof
    /\ Len(search_text) + 2 <= MaxQuery
    /\ inbuf' \in {<<79, 65>>, <<79, 66>>}
    /\ popup_returns
    /\ UNCHANGED <<eof, term>>

\* line 73: the terminal is resized, getch returns KEY_RESIZE
PopupResize ==
    /\ pc = "popup"
    /\ ~eof
    /\ term' \in Sizes \ {term}
    /\ popup_returns
    /\ UNCHANGED <<inbuf, eof>>

\* line 73 raises KeyboardInterrupt, caught at lines 218-219
PopupInterrupt ==
    /\ pc = "popup"
    /\ pc' = "done"
    /\ UNCHANGED <<object, jmm_kv, items, search_text, selected_index, max_y,
                   max_x, filtered_items, key, selected_item, id, abstract,
                   popup, cache, inbuf, eof, term, uncaught, fetches, response,
                   fetched, notfound, saved>>

(***************************************************************************)
(* The process                                                             *)
(***************************************************************************)
Next ==
    \/ Load
    \/ LoadFail
    \/ Render
    \/ Interrupt
    \/ KeyEsc
    \/ KeyUp
    \/ KeyDown
    \/ KeyEnter
    \/ KeyBackspace
    \/ KeyResize
    \/ KeyPrintable
    \/ KeyOther
    \/ LookupCached
    \/ LookupStore
    \/ LookupStoreFail
    \/ LookupNonString
    \/ LookupNotFound
    \/ LookupError
    \/ ShowPopup
    \/ PopupKey
    \/ PopupArrow
    \/ PopupResize
    \/ PopupInterrupt

Spec == Init /\ [][Next]_vars

\* the process is scheduled: a step that can be taken is eventually taken
FairSpec == Spec /\ WF_vars(Next)


(***************************************************************************)
(* Properties                                                              *)
(***************************************************************************)
Browsing == pc \in {"top", "getch"}

\* the view of the current query
current_view == filter_items(items, search_text)

\* C1: after any sequence of input events selected_index is an index of the
\* view of the current query, and is 0 when that view is empty.
C1_SelectedIndexValid ==
    IF current_view # <<>>
    THEN 0 <= selected_index /\ selected_index < Len(current_view)
    ELSE selected_index = 0

\* Down was handled on the last result of a view of two or more
C1_Witness ==
    /\ pc = "top"
    /\ key = KEY_DOWN
    /\ Len(current_view) >= 2
    /\ selected_index = Len(current_view) - 1

\* two characters that are the same letter, whatever their case
same_letter(a, b) ==
    \/ a = b
    \/ {a, b} \in {{"A", "a"}, {"B", "b"}, {"O", "o"}}

\* q occurs in t when case is ignored
occurs_in(q, t) ==
    \E i \in 0..(Len(t) - Len(q)) :
        \A j \in 1..Len(q) : same_letter(q[j], t[i + j])

position(t) == CHOOSE k \in 1..Len(items) : items[k] = t

C3_LookupFailureNotFatal == uncaught # "lookup_abstract"

\* C4: once a lookup has fetched text T for an id and stored it, a later lookup
\* for that id returns T and calls the remote service no more.
C4_CacheRoundTrip ==
    [][ (pc = "lookup" /\ id \in DOMAIN fetched) =>
            /\ pc' = "show_popup"
            /\ fetches' = 0
            /\ abstract' = fetched[id] ]_vars

\* C5: a lookup of an id without a cache file calls the remote service; when
\* the response has no text field it returns NotFound and leaves no cache file,
\* so that a later lookup calls the service again.
C5_MissingFieldNotCached ==
    [][ (pc = "lookup" /\ ~cache_file_exists(id)) =>
            /\ fetches' = 1
            /\ response' = "nofield" =>
                  /\ pc' = "show_popup"
                  /\ abstract' = NotFound
                  /\ ~cache_file_exists(id)' ]_vars

\* a lookup of an id that an earlier lookup answered with NotFound has called
\* the service again and got a text
C5_Witness ==
    /\ pc = "show_popup"
    /\ id \in notfound
    /\ fetches = 1
    /\ response = "text"

\* C6: a lookup of an id whose cache file exists returns the content of the
\* file and calls the remote service not at all.
C6_CacheHitReturnsStoredText ==
    [][ (pc = "lookup" /\ cache_file_exists(id)) =>
            /\ pc' = "show_popup"
            /\ fetches' = 0
            /\ abstract' = cache[id] ]_vars

\* C7: the key that closes the popup has no other effect: back in the loop,
\* search_text and selected_index are what they were at Enter.
C7_PopupKeyOnlyDismisses ==
    (Browsing /\ saved # <<>>) =>
        /\ search_text = saved[1]
        /\ selected_index = saved[2]

\* C8: at end of input the loop exits.
C8_EndOfInputExits == (eof /\ pc = "getch") ~> (pc = "done")

\* C9: Escape in the loop and an interrupt inside getch end the loop, and
\* nothing happens after it has ended.
C9_CancelIsTerminal ==
    [][ /\ (pc = "getch" /\ key' = KEY_ESC) => pc' = "done"
        /\ (pc = "getch" /\ key' = NoKey) => pc' = "done"
        /\ pc # "done" ]_vars

\* the loop has ended on Escape with a query typed
C9_Witness ==
    /\ pc = "done"
    /\ key = KEY_ESC
    /\ search_text # <<>>

\* what lookup_abstract has returned, told from what it did
lookup_result ==
    IF fetches = 0 THEN read_text(cache[id])
    ELSE IF response = "nofield" THEN NotFound
    ELSE fetched[id]

\* C10: from Enter to the popup no key is read; the popup is on screen only
\* once lookup_abstract has returned, and it shows what lookup_abstract
\* returned for the presno of the title that was selected at Enter.
C10_PopupShowsLookupOfSelection ==
    pc \in {"lookup", "show_popup", "popup"} =>
        LET view == filter_items(items, saved[1])
            title == view[saved[2] + 1]
        IN  /\ key \in EnterKeys
            /\ inbuf = <<>>
            /\ selected_item = title
            /\ id = jmm_kv[title].presno
            /\ pc # "popup" => popup = <<>>
            /\ pc = "popup" =>
                  /\ fetches = 0 \/ response \in {"text", "nofield"}
                  /\ popup = [title |-> title, message |-> lookup_result]

\* the popup of the second result of a narrowed view shows a fetched text
C10_Witness ==
    /\ pc = "popup"
    /\ saved[1] # <<>>
    /\ saved[2] = 1
    /\ fetches = 1
    /\ popup.message = CrText


\* C11: a cache file, once it exists, is neither changed nor removed by any
\* later step; lookups only add files for ids that had none.
C11_CacheEntriesPermanent ==
    [][ \A k \in DOMAIN cache :
            k \in DOMAIN cache' /\ cache'[k] = cache[k] ]_vars

\* a lookup has called the service for one id after the file of another id
\* was written, and that file still holds the text it was written with
C11_Witness ==
    /\ pc = "show_popup"
    /\ fetches = 1
    /\ \E k \in DOMAIN fetched : k # id /\ cache[k] = write_text(fetched[k])

\* C12: KEY_RESIZE changes neither search_text nor selected_index, in the
\* handler and in the pass that follows it; the loop goes on, with max_y and
\* max_x read again from the terminal.
C12_ResizeKeepsQueryAndSelection ==
    [][ /\ (pc = "getch" /\ key' = KEY_RESIZE) =>
              /\ search_text' = search_text
              /\ selected_index' = selected_index
              /\ pc' = "top"
              /\ <<max_y', max_x'>> = term'
        /\ (pc = "top" /\ key = KEY_RESIZE) =>
              /\ search_text' = search_text
              /\ selected_index' = selected_index
              /\ pc' = "getch" ]_vars

\* a resize was handled with a query typed and a result other than the first
\* selected
C12_Witness ==
    /\ pc = "top"
    /\ key = KEY_RESIZE
    /\ search_text # <<>>
    /\ selected_index > 0
    /\ <<max_y, max_x>> = term

\* the codes line 209 takes for printable characters
printable(k) == 32 <= k /\ k <= 126

\* C13: in the loop a printable character (a code from 32 to 126) is appended
\* to search_text, Backspace removes its last character (none when it is
\* empty), both set selected_index to 0, and nothing else changes search_text.
C13_QueryEditing ==
    [][ /\ (pc = "getch" /\ printable(key')) =>
              /\ search_text' = Append(search_text, chr(key'))
              /\ selected_index' = 0
        /\ (pc = "getch" /\ key' \in BackspaceKeys) =>
              /\ search_text' = IF search_text = <<>> THEN <<>>
                                ELSE SubSeq(search_text, 1, Len(search_text) - 1)
              /\ selected_index' = 0
        /\ ~(pc = "getch" /\ (printable(key') \/ key' \in BackspaceKeys)) =>
              search_text' = search_text ]_vars

\* Backspace was handled on a query of two characters
C13_Witness ==
    /\ pc = "top"
    /\ key \in BackspaceKeys
    /\ Len(search_text) = 1
    /\ selected_index = 0

\* C14: Up sets selected_index to max(selected_index - 1, 0), Down sets it to
\* min(selected_index + 1, count - 1) and leaves it when the view is empty;
\* both leave search_text.
C14_MoveUpDown ==
    [][ /\ (pc = "getch" /\ key' = KEY_UP) =>
              /\ selected_index' = Max(selected_index - 1, 0)
              /\ search_text' = search_text
        /\ (pc = "getch" /\ key' = KEY_DOWN) =>
              /\ selected_index' =
                    IF Len(current_view) = 0 THEN selected_index
                    ELSE Min(selected_index + 1, Len(current_view) - 1)
              /\ search_text' = search_text ]_vars

\* Up was handled on the last of three results
C14_Witness ==
    /\ pc = "top"
    /\ key = KEY_UP
    /\ Len(current_view) = 3
    /\ selected_index = 1

\* C15: what is drawn is the first min(height, count) results, and the
\* selected result is one of them.
C15_SelectedItemRendered ==
    pc = "getch" =>
        /\ display_items =
              SubSeq(filtered_items, 1, Min(max_y - 7, Len(filtered_items)))
        /\ filtered_items # <<>> => selected_index + 1 <= Len(display_items)

\* C16: Enter with a result selected makes one lookup, for the presno of that
\* result, and then the popup is on screen; Enter with no result changes
\* nothing.
C16_EnterLooksUpAndShows ==
    [][ /\ (pc = "getch" /\ key' \in EnterKeys /\ current_view # <<>>) =>
              /\ pc' = "lookup"
              /\ id' = jmm_kv[current_view[selected_index + 1]].presno
        /\ (pc = "getch" /\ key' \in EnterKeys /\ current_view = <<>>) =>
              /\ pc' = "top"
              /\ UNCHANGED <<search_text, selected_index, cache, popup,
                             fetches, uncaught>>
        /\ pc = "lookup" => (pc' = "show_popup" /\ fetches' <= 1)
        /\ pc = "show_popup" => pc' = "popup" ]_vars

\* C17: one call of lookup_abstract calls the remote service once when the id
\* has no cache file, whatever the outcome, and not at all when it has one.
C17_OneFetchPerMiss ==
    [][ pc = "lookup" =>
            /\ fetches = 0
            /\ fetches' = IF cache_file_exists(id) THEN 0 ELSE 1
            /\ pc' # "lookup" ]_vars

\* the request failed and lookup_abstract raised after that one request
C17_Witness ==
    /\ pc = "crashed"
    /\ uncaught = "lookup_abstract"
    /\ response = "error"
    /\ fetches = 1

\* C18: when the agenda cannot be loaded the process ends with the exception:
\* no key is read, no lookup is made, nothing is shown.
C18_LoadFailureEndsProcess ==
    uncaught = "main" =>
        /\ pc = "crashed"
        /\ items = <<>>
        /\ key = NoKey
        /\ inbuf = <<>>
        /\ ~eof
        /\ id = ""
        /\ fetches = 0
        /\ response = "none"
        /\ popup = <<>>
        /\ fetched = <<>>
        /\ notfound = {}

\* the load has failed
C18_Witness ==
    /\ uncaught = "main"
    /\ pc = "crashed"

\* positions of the records of the agenda that have a presno
keyed == {i \in 1..Len(object) : "presno" \in DOMAIN object[i]}

\* the last of them with title t
last_keyed(t) ==
    CHOOSE i \in keyed :
        /\ object[i].title = t
        /\ \A j \in keyed : object[j].title = t => j <= i

\* C19: the catalog holds the titles of the records with a presno, each once;
\* a title stands for the last such record, whose presno Enter looks up.
C19_CatalogLastWriteWins ==
    /\ Range(items) = {object[i].title : i \in keyed}
    /\ Len(items) = Cardinality(Range(items))
    /\ DOMAIN jmm_kv = Range(items)
    /\ \A t \in Range(items) : jmm_kv[t] = object[last_keyed(t)]
    /\ pc = "lookup" => id = object[last_keyed(selected_item)].presno

\* Enter on a title that two records share looks up the presno of the second
C19_Witness ==
    /\ pc = "lookup"
    /\ selected_item = object[1].title
    /\ object[1].presno = "1"
    /\ id = "2"

\* C20: when lookup_abstract raises, its id has no cache file.
C20_FailedLookupLeavesNoFile ==
    (pc = "crashed" /\ uncaught = "lookup_abstract") => ~cache_file_exists(id)

====
